---- MODULE Spec2Model ----
(***************************************************************************)
(* Rock-Paper-Scissors frame server (src/src/index.ts).                    *)
(*                                                                         *)
(* The server keeps one in-memory map of PvP matches.  Every POST endpoint *)
(* runs the verifyFrameAction middleware first; the middleware awaits the  *)
(* external validation call, so several callbacks can be suspended there   *)
(* at once and are resumed in any order.  The route handlers themselves    *)
(* contain no await: once resumed, a handler runs to completion.           *)
(***************************************************************************)
EXTENDS Integers, FiniteSets, Sequences, TLC

\* ---------------------------------------------------------------- bounds
\* A validated action carries a registered Farcaster fid, a positive integer
\* (0 is never issued); Date.now() is an input read from the system clock, and
\* two reads may return the same millisecond.
MaxFid      == 3    \* identities are the Farcaster fids 1..MaxFid
MaxTime     == 1    \* Date.now() reads a value in 1..MaxTime
MaxButton   == 5    \* tapped button indices 1..MaxButton
MaxInflight == 2    \* cap on callbacks suspended in verification

Fids    == 1..MaxFid
Times   == 1..MaxTime
Buttons == 1..MaxButton

\* The /pvp handler reads and writes only the record stored under the matchId
\* of its own callback, and fids are only compared with one another, so the
\* model follows the lobbies of one initiator, one stored at a time.
Creators == {1}

\* ---------------------------------------------------------------- values
Moves     == {"rock", "paper", "scissors"}
NoMove    == "undefined"          \* moveA / moveB not present
NoFid     == -1                   \* playerB not present
NoMatchId == <<>>                 \* query has no matchId
UnknownId == <<0, 0>>             \* a matchId string the server never issued
MatchIds  == Times \X Creators    \* the strings `${Date.now()}-${fid}`
Endpoints == {"action", "bot", "pvp", "connect"}

\* JavaScript truthiness of an optional number and of an optional string
NumFalsy(x) == x = NoFid \/ x = 0
StrFalsy(s) == s = NoMove \/ s = ""

moveMap == [i \in 1..3 |-> CASE i = 1 -> "rock" [] i = 2 -> "paper" [] i = 3 -> "scissors"]

\* variant: the paper case tests the wrong opponent move
decideWinner_typo(a, b) ==
    IF a = b THEN 0
    ELSE IF \/ (a = "rock" /\ b = "scissors")
            \/ (a = "paper" /\ b = "scissors")
            \/ (a = "scissors" /\ b = "paper")
         THEN 1
         ELSE 2

decideWinner(a, b) ==
    IF a = b THEN 0
    ELSE IF \/ (a = "rock" /\ b = "scissors")
            \/ (a = "paper" /\ b = "rock")
            \/ (a = "scissors" /\ b = "paper")
         THEN 1
         ELSE 2

\* ---------------------------------------------------------------- state
VARIABLES
    matches,    \* the Map<string, MatchState>: a function on a set of ids
    pending,    \* number of callbacks suspended at the validation await
    last,       \* the callback handled most recently
    resp,       \* the response sent for it
    resolved    \* id of the match resolved most recently (history)

vars == <<matches, pending, last, resp, resolved>>

\* ---------------------------------------------------------------- screens
Screen(status, title, who, botMove, buttons, postUrl, postId) ==
    [status |-> status, title |-> title, who |-> who, botMove |-> botMove,
     buttons |-> buttons, postUrl |-> postUrl, postId |-> postId]

\* variant: the error screen is sent with the default status
unauthorized_ok(title) ==
    Screen(200, title, NoFid, NoMove, <<"Back">>, "/", NoMatchId)

unauthorized(title) ==
    Screen(401, title, NoFid, NoMove, <<"Back">>, "/", NoMatchId)

HomeScreen ==
    Screen(200, "Rock Paper Scissors", NoFid, NoMove,
           <<"Play Bot", "Create PvP", "How to Play", "Connect Wallet">>,
           "/action", NoMatchId)

ChooseBotScreen(title) ==
    Screen(200, title, NoFid, NoMove,
           <<"Rock", "Paper", "Scissors", "Back">>, "/bot", NoMatchId)

LobbyScreen(matchId) ==
    Screen(200, "PvP Lobby Created", NoFid, NoMove,
           <<"Share", "Cancel", "Connect Wallet", "Back">>, "/pvp", matchId)

HowToScreen ==
    Screen(200, "How to Play", NoFid, NoMove,
           <<"Play Bot", "Create PvP", "Back">>, "/action", NoMatchId)

ConnectScreen(postUrl) ==
    Screen(200, "Connect Wallet", NoFid, NoMove,
           <<"Base", "Arbitrum", "Back">>, postUrl, NoMatchId)

BotResultScreen(botMove, result) ==
    Screen(200,
           IF result = 0 THEN "Draw!" ELSE IF result = 1 THEN "You Win!" ELSE "Bot Wins!",
           NoFid, botMove, <<"Play Again", "Home", "Connect Wallet">>,
           "/action", NoMatchId)

\* the answer to a request no route matches (there is app.get("/") but no
\* app.post("/")): the framework's 404 page, which carries no frame tags
NoRoute ==
    Screen(404, "Cannot POST /", NoFid, NoMove, <<>>, "none", NoMatchId)

\* the positions of a screen's buttons that post back to its post url: the
\* Connect Wallet screens give "Base" and "Arbitrum" the action "url"
PostButtons(screen) ==
    IF screen.title = "Connect Wallet" THEN {3} ELSE 1..Len(screen.buttons)

\* variant: the "match not found" screen is sent with a client-error status
NotFoundScreen_status ==
    Screen(404, "PvP Match Not Found", NoFid, NoMove, <<"Home">>, "/action", NoMatchId)

NotFoundScreen ==
    Screen(200, "PvP Match Not Found", NoFid, NoMove, <<"Home">>, "/action", NoMatchId)

\* variant: the title is chosen on the opponent's move instead of the opponent
WaitingScreen_onMove(match, matchId) ==
    Screen(200,
           IF StrFalsy(match.moveB) THEN "Waiting for opponent" ELSE "Waiting for both moves",
           NoFid, NoMove, <<"Rock", "Paper", "Scissors", "Cancel">>, "/pvp", matchId)

WaitingScreen(match, matchId) ==
    Screen(200,
           IF NumFalsy(match.playerB) THEN "Waiting for opponent" ELSE "Waiting for both moves",
           NoFid, NoMove, <<"Rock", "Paper", "Scissors", "Cancel">>, "/pvp", matchId)

\* variant: the two winner titles are exchanged
PvPResultScreen_swapped(match) ==
    LET result == decideWinner(match.moveA, match.moveB) IN
    Screen(200,
           IF result = 0 THEN "Draw!" ELSE "Player wins!",
           IF result = 1 THEN match.playerB ELSE IF result = 2 THEN match.playerA ELSE NoFid,
           NoMove, <<"Rematch", "Home", "Connect Wallet">>, "/action", NoMatchId)

PvPResultScreen(match) ==
    LET result == decideWinner(match.moveA, match.moveB) IN
    Screen(200,
           IF result = 0 THEN "Draw!" ELSE "Player wins!",
           IF result = 1 THEN match.playerA ELSE IF result = 2 THEN match.playerB ELSE NoFid,
           NoMove, <<"Rematch", "Home", "Connect Wallet">>, "/action", NoMatchId)

\* ---------------------------------------------------------------- requests
\* the verified action a handler was given; race is history about concurrent
\* joins: "bound" - this callback bound its caller as opponent while another
\* callback was suspended, "lost" - this callback, by a third identity, came
\* right after such a join on the same match; and about repetition:
\* "repeat" - this callback submitted the move its caller had submitted in
\* the callback handled just before, on the same stored match
Handled(ep, verdict, fid, button, matchId, race) ==
    [ep |-> ep, verdict |-> verdict, fid |-> fid, button |-> button,
     matchId |-> matchId, race |-> race]

NoRequest == Handled("none", "none", NoFid, 0, NoMatchId, "none")

Init ==
    /\ matches = <<>>
    /\ pending = 0
    /\ last = NoRequest
    /\ resp = Screen(0, "none", NoFid, NoMove, <<>>, "none", NoMatchId)
    /\ resolved = NoMatchId

\* GET / : the Home screen, no verification
GetHome ==
    /\ last' = Handled("/", "none", NoFid, 0, NoMatchId, "none")
    /\ resp' = HomeScreen
    /\ UNCHANGED <<matches, pending, resolved>>

\* POST / : the post url of the verification error screen; no route handles it
PostRoot ==
    /\ last' = Handled("/", "noroute", NoFid, 0, NoMatchId, "none")
    /\ resp' = NoRoute
    /\ UNCHANGED <<matches, pending, resolved>>

\* verifyFrameAction, body without messageBytes: answered before any await
ArriveMissing(ep) ==
    /\ last' = Handled(ep, "missing", NoFid, 0, NoMatchId, "none")
    /\ resp' = unauthorized("Missing messageBytes")
    /\ UNCHANGED <<matches, pending, resolved>>

\* verifyFrameAction, body with messageBytes: suspended at the validation call
Arrive ==
    /\ pending < MaxInflight
    /\ pending' = pending + 1
    /\ UNCHANGED <<matches, last, resp, resolved>>

\* verifyFrameAction resumed with a validation that fails:
\*   "invalid"  - validation.valid is false,  "noaction" - no validation.action,
\*   "rejects"  - the validation call throws, "badurl"   - new URL(actionUrl) throws
FailVerdicts == {"invalid", "noaction", "rejects", "badurl"}

VerifyFailTitle(verdict) ==
    IF verdict \in {"invalid", "noaction"} THEN "Invalid signature" ELSE "Verification error"

ResumeFail(ep, verdict) ==
    /\ pending > 0
    /\ pending' = pending - 1
    /\ last' = Handled(ep, verdict, NoFid, 0, NoMatchId, "none")
    /\ resp' = unauthorized(VerifyFailTitle(verdict))
    /\ UNCHANGED <<matches, resolved>>

\* ---------------------------------------------------------------- POST /action
NewMatch(matchId, fid, createdAt) ==
    [id |-> matchId, mode |-> "pvp", playerA |-> fid, playerB |-> NoFid,
     moveA |-> NoMove, moveB |-> NoMove, createdAt |-> createdAt]

MapSet(map, key, value) ==
    [k \in DOMAIN map \cup {key} |-> IF k = key THEN value ELSE map[k]]

MapDelete(map, key) ==
    [k \in DOMAIN map \ {key} |-> map[k]]

NewMatchId(t, fid) == <<t, fid>>

\* variant: an unknown button index is answered like button 3
ActionScreen_fallback(buttonIndex, matchId) ==
    CASE buttonIndex = 1 -> ChooseBotScreen("Play Bot - Choose")
      [] buttonIndex = 2 -> LobbyScreen(matchId)
      [] buttonIndex = 4 -> ConnectScreen("/connect")
      [] OTHER -> HowToScreen

ActionScreen(buttonIndex, matchId) ==
    CASE buttonIndex = 1 -> ChooseBotScreen("Play Bot - Choose")
      [] buttonIndex = 2 -> LobbyScreen(matchId)
      [] buttonIndex = 3 -> HowToScreen
      [] buttonIndex = 4 -> ConnectScreen("/connect")
      [] OTHER -> HomeScreen

\* t is the value Date.now() returns while the handler runs (read on button 2 only)
ResumeAction(fid, buttonIndex, t) ==
    /\ pending > 0
    /\ pending' = pending - 1
    /\ last' = Handled("action", "ok", fid, buttonIndex, NoMatchId, "none")
    /\ LET matchId == NewMatchId(t, fid) IN
       /\ resp' = ActionScreen(buttonIndex, matchId)
       /\ IF buttonIndex = 2
          THEN /\ fid \in Creators
               /\ DOMAIN matches \subseteq {matchId}
               /\ matches' = MapSet(matches, matchId, NewMatch(matchId, fid, t))
          ELSE UNCHANGED matches
    /\ UNCHANGED resolved

\* ---------------------------------------------------------------- POST /bot
\* the handler reads only buttonIndex; botMove is chooseBotMove()'s draw,
\* made only for a button that maps to a move
\* variant: a bot round is kept in the store as a match of mode "bot"
ResumeBot_stored(buttonIndex, botMove) ==
    /\ pending > 0
    /\ pending' = pending - 1
    /\ last' = Handled("bot", "ok", NoFid, buttonIndex, NoMatchId, "none")
    /\ resp' = IF buttonIndex \in DOMAIN moveMap
               THEN BotResultScreen(botMove, decideWinner(moveMap[buttonIndex], botMove))
               ELSE ChooseBotScreen("Choose a move")
    /\ matches' = IF buttonIndex \in DOMAIN moveMap
                  THEN MapSet(matches, <<1, 1>>,
                              [NewMatch(<<1, 1>>, 1, 1) EXCEPT !.mode = "bot",
                                                               !.moveA = moveMap[buttonIndex]])
                  ELSE matches
    /\ UNCHANGED resolved

ResumeBot(buttonIndex, botMove) ==
    /\ pending > 0
    /\ pending' = pending - 1
    /\ last' = Handled("bot", "ok", NoFid, buttonIndex, NoMatchId, "none")
    /\ resp' = IF buttonIndex \in DOMAIN moveMap
               THEN BotResultScreen(botMove, decideWinner(moveMap[buttonIndex], botMove))
               ELSE ChooseBotScreen("Choose a move")
    /\ UNCHANGED <<matches, resolved>>

\* ---------------------------------------------------------------- POST /pvp
\* variant: rebinds the opponent on every callback of a non-initiator
BindOpponent_rebind(match, fid) ==
    IF fid # match.playerA
    THEN [match EXCEPT !.playerB = fid]
    ELSE match

\* variant: binds whoever acts first, the initiator included
BindOpponent_self(match, fid) ==
    IF NumFalsy(match.playerB)
    THEN [match EXCEPT !.playerB = fid]
    ELSE match

BindOpponent(match, fid) ==
    IF NumFalsy(match.playerB) /\ fid # match.playerA
    THEN [match EXCEPT !.playerB = fid]
    ELSE match

\* variant: every caller other than the opponent writes the initiator's move
RecordMove_other(match, fid, buttonIndex) ==
    IF buttonIndex >= 1 /\ buttonIndex <= 3
    THEN LET mv == moveMap[buttonIndex]
         IN  IF fid = match.playerB THEN [match EXCEPT !.moveB = mv]
                                    ELSE [match EXCEPT !.moveA = mv]
    ELSE match

\* variant: tapping the move that is already recorded withdraws it
RecordMove_toggle(match, fid, buttonIndex) ==
    IF buttonIndex >= 1 /\ buttonIndex <= 3
    THEN LET mv == moveMap[buttonIndex]
             m1 == IF fid = match.playerA
                   THEN [match EXCEPT !.moveA = IF @ = mv THEN NoMove ELSE mv]
                   ELSE match
         IN  IF fid = m1.playerB
             THEN [m1 EXCEPT !.moveB = IF @ = mv THEN NoMove ELSE mv]
             ELSE m1
    ELSE match

\* variant: button 4 ("Cancel") withdraws the caller's recorded move
RecordMove_clear(match, fid, buttonIndex) ==
    IF buttonIndex >= 1 /\ buttonIndex <= 3
    THEN LET mv == moveMap[buttonIndex]
             m1 == IF fid = match.playerA THEN [match EXCEPT !.moveA = mv] ELSE match
         IN  IF fid = m1.playerB THEN [m1 EXCEPT !.moveB = mv] ELSE m1
    ELSE IF buttonIndex = 4
    THEN LET m1 == IF fid = match.playerA THEN [match EXCEPT !.moveA = NoMove] ELSE match
         IN  IF fid = m1.playerB THEN [m1 EXCEPT !.moveB = NoMove] ELSE m1
    ELSE match

\* variant: every caller other than the initiator writes the opponent's move
RecordMove_anyone(match, fid, buttonIndex) ==
    IF buttonIndex >= 1 /\ buttonIndex <= 3
    THEN LET mv == moveMap[buttonIndex]
         IN  IF fid = match.playerA THEN [match EXCEPT !.moveA = mv]
                                    ELSE [match EXCEPT !.moveB = mv]
    ELSE match

RecordMove(match, fid, buttonIndex) ==
    IF buttonIndex >= 1 /\ buttonIndex <= 3
    THEN LET mv == moveMap[buttonIndex]
             m1 == IF fid = match.playerA THEN [match EXCEPT !.moveA = mv] ELSE match
         IN  IF fid = m1.playerB THEN [m1 EXCEPT !.moveB = mv] ELSE m1
    ELSE match

\* variant: the handler always answers with the waiting screen
StillWaiting_keep(match) == TRUE

StillWaiting(match) ==
    NumFalsy(match.playerB) \/ StrFalsy(match.moveA) \/ StrFalsy(match.moveB)

MatchMissing(matchId) ==
    matchId = NoMatchId \/ matchId \notin DOMAIN matches

Race(fid, matchId) ==
    IF MatchMissing(matchId) THEN "none"
    ELSE IF /\ pending >= 2
            /\ BindOpponent(matches[matchId], fid) # matches[matchId]
         THEN "bound"
    ELSE IF /\ last.race = "bound" /\ last.matchId = matchId
            /\ fid \notin {matches[matchId].playerA, matches[matchId].playerB}
         THEN "lost"
    ELSE "none"

\* the callback repeats the move submission handled just before it
Repeated(fid, buttonIndex, matchId) ==
    /\ ~MatchMissing(matchId)
    /\ buttonIndex \in DOMAIN moveMap
    /\ last.ep = "pvp" /\ last.verdict = "ok"
    /\ last.fid = fid /\ last.button = buttonIndex /\ last.matchId = matchId

History(fid, buttonIndex, matchId) ==
    IF Race(fid, matchId) # "none" THEN Race(fid, matchId)
    ELSE IF Repeated(fid, buttonIndex, matchId) THEN "repeat"
    ELSE "none"

ResumePvp(fid, buttonIndex, matchId) ==
    /\ pending > 0
    /\ pending' = pending - 1
    /\ last' = Handled("pvp", "ok", fid, buttonIndex, matchId,
                       History(fid, buttonIndex, matchId))
    /\ IF MatchMissing(matchId)
       THEN /\ resp' = NotFoundScreen
            /\ UNCHANGED <<matches, resolved>>
       ELSE LET match == RecordMove(BindOpponent(matches[matchId], fid), fid, buttonIndex) IN
            IF StillWaiting(match)
            THEN /\ matches' = [matches EXCEPT ![matchId] = match]
                 /\ resp' = WaitingScreen(match, matchId)
                 /\ UNCHANGED resolved
            ELSE /\ matches' = MapDelete(matches, matchId)
                 /\ resp' = PvPResultScreen(match)
                 /\ resolved' = matchId

\* ---------------------------------------------------------------- POST /connect
\* the handler reads nothing of the verified action
ResumeConnect ==
    /\ pending > 0
    /\ pending' = pending - 1
    /\ last' = Handled("connect", "ok", NoFid, 0, NoMatchId, "none")
    /\ resp' = ConnectScreen("/action")
    /\ UNCHANGED <<matches, resolved>>

\* the matchId carried by the query string of the verified url
Queries == MatchIds \cup {UnknownId, NoMatchId}

Next ==
    \/ GetHome
    \/ PostRoot
    \/ \E ep \in Endpoints : ArriveMissing(ep)
    \/ Arrive
    \/ \E ep \in Endpoints, v \in FailVerdicts : ResumeFail(ep, v)
    \/ \E fid \in Fids, b \in Buttons :
          \E t \in (IF b = 2 THEN Times ELSE {1}) : ResumeAction(fid, b, t)
    \/ \E b \in Buttons :
          \E botMove \in (IF b \in DOMAIN moveMap THEN Moves ELSE {NoMove}) :
             ResumeBot(b, botMove)
    \/ \E fid \in Fids, b \in Buttons, q \in Queries : ResumePvp(fid, b, q)
    \/ ResumeConnect

Spec == Init /\ [][Next]_vars

TypeOK ==
    /\ DOMAIN matches \subseteq MatchIds
    /\ pending \in 0..MaxInflight

\* ================================================================ properties
\* the step resumes a verified PvP callback: ResumePvp(last'.fid, last'.button,
\* last'.matchId), the only action that takes a callback out of verification
\* and records it as a verified PvP callback
PvpDone == pending' = pending - 1 /\ last'.ep = "pvp" /\ last'.verdict = "ok"

\* a step that resumes a verified PvP callback carrying matchId id
PvpStep(id) == PvpDone /\ last'.matchId = id

\* the match id stays stored across the step
Kept(id) == id \in DOMAIN matches /\ id \in DOMAIN matches'

\* C1: first write wins - a PvP callback on a stored match never changes a
\* move that is already recorded; a move field only goes from unset to set.
C1_FirstWriteWins ==
    [][\A id \in MatchIds :
          (PvpStep(id) /\ Kept(id)) =>
              /\ matches[id].moveA # NoMove => matches'[id].moveA = matches[id].moveA
              /\ matches[id].moveB # NoMove => matches'[id].moveB = matches[id].moveB]_vars

\* C2: at-most-once resolution - right after a match resolves its id is not
\* in the store, and every later PvP callback carrying the id of a resolved
\* match is answered with the "match not found" screen.
C2_AtMostOnceResolution ==
    /\ [](resp.postUrl = "/action" /\ resp.buttons[1] = "Rematch"
             => resolved \notin DOMAIN matches)
    /\ [][resolved # NoMatchId /\ PvpStep(resolved) => resp' = NotFoundScreen]_vars

\* C3: the opponent is set at most once - a PvP callback never changes an
\* opponent that is bound, and on a match without opponent it binds the
\* caller exactly when the caller is not the initiator.
C3_OpponentSetOnce ==
    [][\A id \in MatchIds :
          (PvpStep(id) /\ Kept(id)) =>
              /\ matches[id].playerB # NoFid
                    => matches'[id].playerB = matches[id].playerB
              /\ matches[id].playerB = NoFid /\ last'.fid # matches[id].playerA
                    => matches'[id].playerB = last'.fid
              /\ matches[id].playerB = NoFid /\ last'.fid = matches[id].playerA
                    => matches'[id].playerB = NoFid]_vars

\* a third identity acted on a match whose opponent was bound before
C3_Witness ==
    /\ last.ep = "pvp" /\ last.matchId \in DOMAIN matches
    /\ matches[last.matchId].playerB # NoFid
    /\ last.fid \notin {matches[last.matchId].playerA, matches[last.matchId].playerB}

\* C4: exclusivity - a stored match's opponent, when set, differs from its
\* initiator, and a callback by the initiator on a match without opponent
\* leaves it without opponent.
C4_Exclusivity ==
    /\ [](\A id \in DOMAIN matches :
             matches[id].playerB # NoFid => matches[id].playerB # matches[id].playerA)
    /\ [][\A id \in MatchIds :
             (id \in DOMAIN matches /\ matches[id].playerB = NoFid
                /\ PvpStep(id) /\ last'.fid = matches[id].playerA)
             => (id \in DOMAIN matches' /\ matches'[id].playerB = NoFid)]_vars

\* the initiator tapped a move on the own match and no opponent is bound
C4_Witness ==
    /\ last.ep = "pvp" /\ last.matchId \in DOMAIN matches
    /\ last.fid = matches[last.matchId].playerA
    /\ matches[last.matchId].moveA # NoMove
    /\ matches[last.matchId].playerB = NoFid

\* C5: callbacks in flight together are handled one whole handler at a time.
\* After a join that bound its caller while another callback was suspended,
\* the next PvP callback on that match keeps that opponent, and it changes
\* the opponent's move only when its caller is that opponent; a callback by
\* a third identity leaves the store as it is.
C5_ConcurrentJoins ==
    [][\A id \in MatchIds :
          (/\ last.race = "bound" /\ last.matchId = id
           /\ id \in DOMAIN matches
           /\ PvpStep(id))
          => /\ matches[id].playerB = last.fid
             /\ Kept(id) => matches'[id].playerB = last.fid
             /\ Kept(id) /\ matches'[id].moveB # matches[id].moveB => last'.fid = last.fid
             /\ last'.fid \notin {matches[id].playerA, last.fid}
                   => matches' = matches /\ resp' = WaitingScreen(matches[id], id)]_vars

\* two joins were in flight together: the first was bound, the second, by a
\* third identity tapping a move, was handled next and recorded nothing
C5_Witness ==
    /\ last.race = "lost" /\ last.button \in 1..3
    /\ last.matchId \in DOMAIN matches
    /\ matches[last.matchId].playerB \notin {NoFid, last.fid}
    /\ matches[last.matchId].moveB = NoMove

\* C6: creating a lobby produces an id that is not a key of the store, adds
\* exactly that one record and leaves every stored record as it was.
C6_FreshId ==
    [][(pending' = pending - 1 /\ last'.ep = "action" /\ last'.verdict = "ok"
          /\ last'.button = 2)
       => LET id == resp'.postId IN
          /\ id \notin DOMAIN matches
          /\ DOMAIN matches' = DOMAIN matches \cup {id}
          /\ \A k \in DOMAIN matches : matches'[k] = matches[k]]_vars

\* C7: the waiting screen of an unresolved match says "Waiting for opponent"
\* exactly when the record has no opponent, and "Waiting for both moves"
\* exactly when an opponent is bound and a move is missing; its callback
\* target carries the same match id.
C7_WaitingScreens ==
    (last.ep = "pvp" /\ last.matchId \in DOMAIN matches) =>
        LET m == matches[last.matchId] IN
        /\ resp.title \in {"Waiting for opponent", "Waiting for both moves"}
        /\ resp.title = "Waiting for opponent" <=> m.playerB = NoFid
        /\ resp.title = "Waiting for both moves"
              <=> (m.playerB # NoFid /\ (m.moveA = NoMove \/ m.moveB = NoMove))
        /\ resp.postUrl = "/pvp" /\ resp.postId = last.matchId

\* an opponent is bound and has moved, the initiator has not
C7_Witness ==
    /\ last.ep = "pvp" /\ last.matchId \in DOMAIN matches
    /\ matches[last.matchId].playerB # NoFid
    /\ matches[last.matchId].moveB # NoMove
    /\ matches[last.matchId].moveA = NoMove
    /\ resp.title = "Waiting for both moves"

\* the dominance relation: rock beats scissors, scissors beats paper, paper beats rock
Beats(a, b) == <<a, b>> \in {<<"rock", "scissors">>, <<"scissors", "paper">>, <<"paper", "rock">>}

\* C8: when a PvP callback resolves a match, the result names the initiator
\* exactly when the initiator's move beats the opponent's, the opponent
\* exactly when the opponent's move beats the initiator's, and is a draw
\* exactly when the two moves are equal.
C8_PvPOutcome ==
    [][\A id \in MatchIds :
          (id \in DOMAIN matches /\ id \notin DOMAIN matches' /\ PvpStep(id))
          => LET m   == matches[id]
                 fid == last'.fid
                 b   == last'.button
                 a   == IF fid = m.playerA THEN moveMap[b] ELSE m.moveA
                 o   == IF fid = m.playerA THEN m.moveB ELSE moveMap[b]
                 pB  == IF m.playerB = NoFid THEN fid ELSE m.playerB
             IN  /\ a \in Moves /\ o \in Moves /\ pB # m.playerA
                 /\ resp'.who = m.playerA <=> Beats(a, o)
                 /\ resp'.who = pB <=> Beats(o, a)
                 /\ (resp'.title = "Draw!" /\ resp'.who = NoFid) <=> a = o
                 /\ resp'.title \in {"Draw!", "Player wins!"}]_vars

\* the initiator (whose fid the match id ends with) tapped paper and is named winner
C8_Witness ==
    /\ last.ep = "pvp" /\ last.matchId \in MatchIds
    /\ last.matchId[2] = last.fid /\ last.button = 2
    /\ resp.title = "Player wins!" /\ resp.who = last.fid

\* C9: decideWinner is a draw on equal moves, first-wins exactly on the three
\* dominating pairs, and first-wins for (a,b) exactly when second-wins for (b,a).
\* Every bot round, which applies it to the tapped move and the bot's draw,
\* is titled accordingly.
C9_MoveResolver ==
    /\ \A a \in Moves, b \in Moves :
          /\ decideWinner(a, a) = 0
          /\ decideWinner(a, b) \in {0, 1, 2}
          /\ decideWinner(a, b) = 1 <=> Beats(a, b)
          /\ decideWinner(a, b) = 1 <=> decideWinner(b, a) = 2
          /\ decideWinner(a, b) = 0 <=> a = b
    /\ (last.ep = "bot" /\ last.verdict = "ok" /\ last.button \in 1..3) =>
          LET a == moveMap[last.button]
              b == resp.botMove
          IN  /\ b \in Moves
              /\ resp.title = "Draw!" <=> a = b
              /\ resp.title = "You Win!" <=> Beats(a, b)
              /\ resp.title = "Bot Wins!" <=> Beats(b, a)

\* a bot round in which the player's paper beat the bot's rock
C9_Witness ==
    /\ last.ep = "bot" /\ last.button = 2
    /\ resp.botMove = "rock" /\ resp.title = "You Win!"

\* C10: a callback whose verification fails (a step of ArriveMissing or of
\* ResumeFail, the steps that record a failing verdict) is answered with the
\* 401 Error screen with the single button "Back", no handler runs, and the
\* store is left as it was.
C10_VerificationFailure ==
    [][(pending' <= pending /\ last'.verdict \in FailVerdicts \cup {"missing"})
          => /\ resp'.status = 401
             /\ resp'.buttons = <<"Back">> /\ resp'.postUrl = "/"
             /\ resp'.title \in {"Missing messageBytes", "Invalid signature", "Verification error"}
             /\ last'.verdict # "ok"
             /\ matches' = matches]_vars

\* the validation call threw on a PvP callback while a match was stored
C10_Witness ==
    /\ last.ep = "pvp" /\ last.verdict = "rejects"
    /\ resp.status = 401
    /\ matches # <<>>

\* C11: match not found - a verified PvP callback whose query has no matchId,
\* or whose matchId is not a key of the store, is answered with the "PvP Match
\* Not Found" screen with status 200 and leaves the store exactly as it was:
\* the same keys, every record unchanged.
C11_MatchNotFound ==
    [][(PvpDone /\ (last'.matchId = NoMatchId \/ last'.matchId \notin DOMAIN matches))
          => /\ resp'.title = "PvP Match Not Found"
             /\ resp'.status = 200
             /\ resp'.buttons = <<"Home">> /\ resp'.postUrl = "/action"
             /\ DOMAIN matches' = DOMAIN matches
             /\ \A k \in DOMAIN matches : matches'[k] = matches[k]]_vars

\* a PvP callback carried a matchId the server never issued while a match
\* with an opponent was stored
C11_Witness ==
    /\ last.ep = "pvp" /\ last.verdict = "ok" /\ last.matchId = UnknownId
    /\ resp.title = "PvP Match Not Found"
    /\ \E k \in DOMAIN matches : matches[k].playerB # NoFid

\* the step resumes a verified callback on the /action endpoint
ActionDone == pending' = pending - 1 /\ last'.ep = "action" /\ last'.verdict = "ok"

\* C12: Home transitions - a verified callback on /action with button 1 is
\* answered with the choose-move screen of the bot flow, button 2 stores under
\* the id in the lobby screen's callback target a record whose initiator is
\* the caller, without opponent and without moves, and changes no other key,
\* button 3 is answered with How to Play, button 4 with Connect Wallet, every
\* other index with Home; only button 2 changes the store.
C12_HomeTransitions ==
    [][ActionDone =>
          LET b == last'.button IN
          /\ b = 1 => resp'.title = "Play Bot - Choose" /\ resp'.postUrl = "/bot"
          /\ b = 2 => LET id == resp'.postId IN
                      /\ resp'.title = "PvP Lobby Created" /\ resp'.postUrl = "/pvp"
                      /\ DOMAIN matches' = DOMAIN matches \cup {id}
                      /\ matches'[id].id = id /\ matches'[id].mode = "pvp"
                      /\ matches'[id].playerA = last'.fid
                      /\ matches'[id].playerB = NoFid
                      /\ matches'[id].moveA = NoMove /\ matches'[id].moveB = NoMove
                      /\ \A k \in DOMAIN matches \ {id} : matches'[k] = matches[k]
          /\ b = 3 => resp'.title = "How to Play" /\ resp'.postUrl = "/action"
          /\ b = 4 => resp'.title = "Connect Wallet" /\ resp'.postUrl = "/connect"
          /\ b \notin 1..4 => resp' = HomeScreen
          /\ resp'.status = 200
          /\ b # 2 => matches' = matches /\ resp'.postId = NoMatchId]_vars

\* Create PvP was tapped: the lobby screen carries the id of a stored record
\* of the caller, without opponent and moves
C12_Witness ==
    /\ last.ep = "action" /\ last.verdict = "ok" /\ last.button = 2
    /\ resp.title = "PvP Lobby Created" /\ resp.postId \in DOMAIN matches
    /\ matches[resp.postId] = NewMatch(resp.postId, last.fid, resp.postId[1])

\* the endpoint a post url names
EndpointOf(postUrl) ==
    CASE postUrl = "/action"  -> "action"
      [] postUrl = "/bot"     -> "bot"
      [] postUrl = "/pvp"     -> "pvp"
      [] postUrl = "/connect" -> "connect"
      [] postUrl = "/"        -> "/"
      [] OTHER                -> "none"

\* the step hands a route handler the verified callback of a tap on a post
\* button of screen s: sent to the endpoint of the post url of s, with one of
\* the screen's post button positions and the screen's matchId.  (/connect
\* reads nothing of the action, /bot and /action do not read the query.)
VerifiedTap(s) ==
    /\ pending' = pending - 1
    /\ last'.verdict = "ok"
    /\ last'.ep = EndpointOf(s.postUrl)
    /\ last'.ep # "connect" => last'.button \in PostButtons(s)
    /\ last'.ep = "pvp" => last'.matchId = s.postId

\* the step answers a tap on a post button of screen s, whatever becomes of
\* its verification; a tap on a screen whose post url is "/" is the POST no
\* route handles
Tap(s) ==
    \/ VerifiedTap(s)
    \/ /\ s.postUrl = "/" /\ last'.ep = "/" /\ last'.verdict = "noroute"
    \/ /\ last'.ep = EndpointOf(s.postUrl)
       /\ last'.verdict \in FailVerdicts \cup {"missing"}

\* the response is a screen: frame tags with one to four buttons and a post url
IsScreen(r) ==
    /\ Len(r.buttons) \in 1..4
    /\ r.postUrl \in {"/", "/action", "/bot", "/pvp", "/connect"}

\* two renderings of the same logical screen
SameScreen(a, b) == a.title = b.title /\ a.buttons = b.buttons

ErrorTitles ==
    {"PvP Match Not Found", "Missing messageBytes", "Invalid signature", "Verification error"}

\* C13: informational screens - a tap on a post button of the How to Play,
\* Connect Wallet or an Error screen, sent to that screen's post url and
\* verified, is answered with Home or with the same screen again, and leaves
\* the store as it was.
C13_InformationalScreens ==
    [][(resp.title \in {"How to Play", "Connect Wallet"} \cup ErrorTitles /\ VerifiedTap(resp))
          => /\ resp' = HomeScreen \/ SameScreen(resp', resp)
             /\ matches' = matches]_vars

\* C14: every tap on a post button of a screen the server rendered, sent to
\* that screen's post url, is answered with a screen, whether the callback
\* verifies or not.
C14_AlwaysAScreen ==
    [][(IsScreen(resp) /\ Tap(resp)) => IsScreen(resp')]_vars

\* C15: result screens re-enter cleanly - a tap on a button of a bot result
\* or PvP result screen, sent to that screen's post url and verified, is
\* answered with Home, the bot flow's choose-move screen or a new lobby, and
\* the answer names no player and no bot move of the finished round.
C15_ResultReentry ==
    [][(resp.buttons \in {<<"Play Again", "Home", "Connect Wallet">>,
                          <<"Rematch", "Home", "Connect Wallet">>} /\ VerifiedTap(resp))
          => /\ resp'.title \in {"Rock Paper Scissors", "Play Bot - Choose", "PvP Lobby Created"}
             /\ resp'.who = NoFid /\ resp'.botMove = NoMove]_vars

\* the step resumes a verified callback on the /bot endpoint
BotDone == pending' = pending - 1 /\ last'.ep = "bot" /\ last'.verdict = "ok"

\* C16: bot games are stateless - a verified callback on /bot leaves the
\* store and the resolution history exactly as they were; with a button
\* outside 1..3 it is answered with the choose-move screen, with a button in
\* 1..3 with a bot result, and that result is determined by the tapped button
\* and the bot's draw alone.
C16_BotStateless ==
    [][BotDone =>
          LET b == last'.button IN
          /\ matches' = matches /\ resolved' = resolved
          /\ b \notin 1..3 =>
                /\ resp'.title = "Choose a move" /\ resp'.postUrl = "/bot"
                /\ resp'.buttons = <<"Rock", "Paper", "Scissors", "Back">>
                /\ resp'.botMove = NoMove
          /\ b \in 1..3 =>
                /\ resp'.botMove \in Moves
                /\ resp'.title \in {"Draw!", "You Win!", "Bot Wins!"}
                /\ resp'.buttons = <<"Play Again", "Home", "Connect Wallet">>
                /\ resp' = BotResultScreen(resp'.botMove,
                                           decideWinner(moveMap[b], resp'.botMove))
          /\ resp'.who = NoFid /\ resp'.postId = NoMatchId]_vars

\* a bot callback with button 4 was answered with the choose-move screen
\* while a match with a recorded move was stored
C16_Witness ==
    /\ last.ep = "bot" /\ last.verdict = "ok" /\ last.button = 4
    /\ resp.title = "Choose a move"
    /\ \E k \in DOMAIN matches : matches[k].moveA # NoMove

\* the callback of fid with button b supplies the move that record m lacks
\* while the other move is recorded
SecondMove(m, fid, b) ==
    /\ b \in 1..3
    /\ \/ fid = m.playerA /\ m.moveB # NoMove
       \/ fid # m.playerA /\ m.playerB \in {NoFid, fid} /\ m.moveA # NoMove

\* C17: immediate disposal - no stored record has both moves set, and a PvP
\* callback on a stored match removes the record and answers with the result
\* exactly when it supplies the second move.
C17_ImmediateDisposal ==
    /\ [](\A id \in DOMAIN matches :
             matches[id].moveA = NoMove \/ matches[id].moveB = NoMove)
    /\ [][\A id \in MatchIds :
             (id \in DOMAIN matches /\ PvpStep(id)) =>
                IF SecondMove(matches[id], last'.fid, last'.button)
                THEN /\ id \notin DOMAIN matches'
                     /\ resp'.buttons = <<"Rematch", "Home", "Connect Wallet">>
                     /\ resolved' = id
                ELSE /\ id \in DOMAIN matches'
                     /\ resp'.title \in {"Waiting for opponent", "Waiting for both moves"}]_vars

\* the opponent's move came second: that callback resolved the match and the
\* record is gone
C17_Witness ==
    /\ last.ep = "pvp" /\ last.verdict = "ok" /\ last.button \in 1..3
    /\ last.matchId \in MatchIds /\ last.matchId = resolved
    /\ last.fid # last.matchId[2]
    /\ resp.buttons = <<"Rematch", "Home", "Connect Wallet">>
    /\ last.matchId \notin DOMAIN matches

C19_RepeatedMove ==
    [][\A id \in MatchIds :
          (id \in DOMAIN matches /\ PvpStep(id) /\ last'.button \in 1..3) =>
             LET m   == matches[id]
                 fid == last'.fid
                 mv  == moveMap[last'.button]
             IN  /\ (\/ fid = m.playerA /\ m.moveA = mv
                     \/ fid = m.playerB /\ m.moveB = mv)
                       => matches' = matches /\ resp' = WaitingScreen(m, id)
                 /\ (/\ last.ep = "pvp" /\ last.verdict = "ok" /\ last.matchId = id
                     /\ last.fid = fid /\ last.button = last'.button)
                       => matches' = matches /\ resp' = resp]_vars

\* the opponent submitted the same move twice in a row: it is recorded, the
\* match is still stored and unresolved
C19_Witness ==
    /\ last.race = "repeat" /\ last.matchId \in DOMAIN matches
    /\ matches[last.matchId].playerB = last.fid
    /\ matches[last.matchId].moveB = moveMap[last.button]
    /\ resp.title = "Waiting for both moves"

\* C20: third parties cannot affect a match - on a stored match with a bound
\* opponent, a PvP callback by an identity that is neither the initiator nor
\* the opponent, with any button, leaves the whole store as it is, resolves
\* nothing and is answered with the waiting screen of the unchanged record.
C20_ThirdParty ==
    [][\A id \in MatchIds :
          (/\ id \in DOMAIN matches /\ PvpStep(id)
           /\ matches[id].playerB # NoFid
           /\ last'.fid \notin {matches[id].playerA, matches[id].playerB})
          => /\ matches' = matches
             /\ resolved' = resolved
             /\ resp'.title = "Waiting for both moves"
             /\ resp'.postUrl = "/pvp" /\ resp'.postId = id]_vars

\* a third identity tapped a move on a match whose opponent had moved and
\* whose initiator had not: nothing was recorded for it
C20_Witness ==
    /\ last.ep = "pvp" /\ last.verdict = "ok" /\ last.button \in 1..3
    /\ last.matchId \in DOMAIN matches
    /\ matches[last.matchId].playerB # NoFid
    /\ last.fid \notin {matches[last.matchId].playerA, matches[last.matchId].playerB}
    /\ matches[last.matchId].moveB # NoMove
    /\ matches[last.matchId].moveA = NoMove
    /\ resolved # last.matchId
====
